---- MODULE Spec2Model ----
(***************************************************************************)
(* Data-access layer of the job-application tracker: the documents table   *)
(* with its preferred-resume flag, the jobs table with the Jobs Portal     *)
(* grid, on the SQLite and the Supabase backend.                           *)
(*                                                                         *)
(* A table is the set of its rows; a row is a record of its columns.  The  *)
(* DataFrame handed to a save function is the sequence of its rows in      *)
(* iterrows() order.                                                       *)
(***************************************************************************)
EXTENDS Integers, Sequences, FiniteSets, TLC

\* ------------------------------------------------------------------ bounds
\* documents ever inserted (Spec)
MaxDocs == 2
\* documents ever inserted (SpecFrame)
MaxFrameDocs == 1
\* jobs ever inserted (SpecStats, SpecClock)
MaxTimedJobs == 2
MaxClockJobs == 2
MaxFileDocs == 2
MaxFiles == 1
MaxProfiles == 4
MaxGoals == 2
MaxGoalTicks == 1
MaxOthers == 1
MaxCredRows == 1
MaxUsers == 4
MaxSessionJobs == 1
MaxExportUsers == 3
MaxExportId == 4
MaxTicks == 3
\* jobs ever inserted, rows of a jobs grid (SpecJobs)
MaxJobs == 2
MaxGrid == 2
\* documents, profiles and career goals ever inserted, together (SpecJobs)
MaxOwned == 1
\* documents ever inserted (SpecConc)
MaxConcDocs == 2

\* ---------------------------------------------------------------- constants
\* SQL NULL / pandas NaN: the value of a column that holds nothing.
\* AUTOINCREMENT and SERIAL ids start at 1, so 0 is never a row's id.
NULL == 0

Users == {1, 2}
\* what use_supabase() reads: whether supabase_utils could be imported,
\* whether st.secrets holds SUPABASE_URL, whether data/jobs.db exists
\* the seconds of a day of the model's calendar
SecondsPerDay == 2

\* the trailing window of recent_applications, in days
WindowDays == 7

Deployment(available, url, db) ==
    [SUPABASE_AVAILABLE |-> available, SUPABASE_URL |-> url, jobs_db |-> db]

\* the running application: importing utils and the start of app.py have
\* opened data/jobs.db, which creates the file; the hosted deployment has
\* the Supabase secrets, the local one has not
Hosted == Deployment(TRUE, TRUE, TRUE)

Local == Deployment(TRUE, FALSE, TRUE)

RunningDeployments == {Hosted, Local}

\* every machine the code may be started on
Deployments == [SUPABASE_AVAILABLE : BOOLEAN, SUPABASE_URL : BOOLEAN, jobs_db : BOOLEAN]
\* the selectbox of the upload form
DocTypes == {"Resume", "Cover Letter", "Other"}
DocNames == {"Resume_A", "Resume_B"}

MsgOnlyOne == "Only one document can be set as preferred resume per user"
MsgUpdated == "Documents updated successfully!"
MsgAdded == "Document added successfully!"
MsgUploaded == "Document uploaded and content stored successfully!"
MsgExtract == "Error extracting content"
MsgUploadError == "Error uploading document"
MsgDenied == "Document not found or access denied"
MsgDeleted == "Document deleted successfully!"
MsgLocked == "Error saving documents: database is locked"
MsgStoreError == "Error saving documents: store error"
MsgJobAdded == "Job added successfully!"
MsgJobSaved == "Job details saved successfully!"
MsgChangesSaved == "Changes saved successfully!"
MsgNotAuthenticated == "User not authenticated"
MsgNoUserId == "User ID not found"
MsgProfileUpdated == "Profile updated successfully!"
MsgProfileError == "Error updating profile: duplicate key value violates unique constraint"
MsgNoCredentials == "Supabase credentials not found in secrets or environment variables"
MsgRequired == "Username and password are required."
MsgUsernameExists == "Username already exists. Please choose a different username."
MsgEmailRegistered == "Email already registered. Please use a different email."
MsgRegistered == "Registration successful! You can now login."
MsgIntegrityError == "Database error: UNIQUE constraint failed"
MsgRegistrationError == "Error during registration: duplicate key value violates unique constraint"
MsgDeleteError == "Error deleting document: database is locked"
MsgGoalsAdded == "Career goals added successfully!"

\* the browser sessions that may be inside save_documents_to_database at once
Sessions == {1, 2}

\* a status column holding NULL: job_data.get('status') of a job_data without
\* the key
NullStatus == "<NULL>"

\* a users.email that is NULL; a blank email is the empty text
NullEmail == "<NULL>"

\* the users registered before the model starts, one username each and no
\* email
Username(id) == <<"user1", "user2">>[id]

UserRows == {[id |-> u, username |-> Username(u), email |-> NullEmail] : u \in Users}

\* two of the values of the Application Status selectbox
JobStatuses == {"Not Applied", "Applied"}

VARIABLES
    deployment,      \* the machine: what use_supabase() reads
    clock,           \* datetime.now() in seconds, and how far UTC is from it
    files,           \* the paths that exist on disk
    users,           \* the users table
    documents,       \* the documents table of the active store
    documents_seq,   \* the highest document id ever given out
    jobs,            \* the jobs table of the active store
    jobs_seq,        \* the highest job id ever given out
    user_profile,    \* the user_profile table
    user_profile_seq,
    career_goals,    \* the career_goals table
    career_goals_seq,
    call,            \* the data-layer call made last: its name and arguments
    result,          \* what that call returned: (ok, message)
    saves,           \* the save_documents_to_database calls in progress, by session
    db_lock,         \* the session holding the write lock of the SQLite file
    profile_calls,   \* the update_user_profile calls in progress, by session
    register_calls,  \* the register_user calls in progress, by session
    session_state    \* st.session_state of each session: the login

documentTables == <<documents, documents_seq>>
jobTables == <<jobs, jobs_seq>>
profileTables == <<user_profile, user_profile_seq>>
goalTables == <<career_goals, career_goals_seq>>

saveCalls == <<saves, db_lock, profile_calls, register_calls, session_state>>

vars == <<deployment, clock, files, users, documentTables, jobTables, profileTables, goalTables, call, result,
          saveCalls>>

\* SELECT id FROM users
user_ids == {u.id : u \in users}

\* ------------------------------------------------------------- the tables
DocumentIds(docs) == {d.id : d \in docs}

DocumentsOf(docs, user_id) == {d \in docs : d.user_id = user_id}

\* SELECT ... FROM documents WHERE id = ?
DocumentById(docs, id) == {d \in docs : d.id = id}

is_cloud_environment == deployment.SUPABASE_URL \/ ~deployment.jobs_db

use_supabase == deployment.SUPABASE_AVAILABLE /\ is_cloud_environment

\* ------------------------------------------------------------------- time
\* A text is a sequence of numbers compared field by field, a text that is a
\* prefix of another being the smaller, as strings compare.
TextLess(a, b) ==
    \E k \in 1..(Len(a) + 1) :
        /\ \A j \in 1..(k - 1) : j <= Len(b) /\ a[j] = b[j]
        /\ IF k > Len(a) THEN Len(b) >= k ELSE k <= Len(b) /\ a[k] < b[k]

TextLessEq(a, b) == a = b \/ TextLess(a, b)

\* strftime("%Y-%m-%d %H:%M:%S") of a time in seconds: the day, then the
\* second of the day
strftime_datetime(t) == <<t \div SecondsPerDay, t % SecondsPerDay>>

\* strftime("%Y-%m-%d"), and date() of SQLite: the day alone
strftime_date(t) == <<t \div SecondsPerDay>>

\* timedelta(days = n), and the modifier '-n days'
days(n) == n * SecondsPerDay

\* datetime.now(), the local time of the server
datetime_now == clock.now

\* 'now' of SQLite, which is UTC
sqlite_now == clock.now + clock.utc_offset

\* the time a "%Y-%m-%d %H:%M:%S" text denotes
strptime_datetime(text) == text[1] * SecondsPerDay + text[2]

Clock(now, utc_offset) == [now |-> now, utc_offset |-> utc_offset]

\* a server whose local time is UTC, on the day after the first trailing
\* week of the model's calendar
ServerClock == Clock(days(WindowDays + 1), 0)

\* ------------------------------------------------------------ add_document
\* INSERT INTO documents (user_id, document_name, document_type, upload_date,
\* file_path): preferred_resume takes the column default 0
\* an INSERT that stores the preferred_resume of document_data
AddDocumentCallerFlag(docs, id, user_id, document_data) ==
    docs \cup {[id |-> id,
                user_id |-> user_id,
                document_name |-> document_data.document_name,
                document_type |-> document_data.document_type,
                file_path |-> document_data.file_path,
                preferred_resume |-> IF document_data.preferred_resume THEN 1 ELSE 0]}

sqlite_add_document(docs, id, user_id, document_data) ==
    docs \cup {[id |-> id,
                user_id |-> user_id,
                document_name |-> document_data.document_name,
                document_type |-> document_data.document_type,
                file_path |-> document_data.file_path,
                preferred_resume |-> 0]}

supabase_add_document(docs, id, user_id, document_data) ==
    docs \cup {[id |-> id,
                user_id |-> user_id,
                document_name |-> document_data.document_name,
                document_type |-> document_data.document_type,
                file_path |-> document_data.file_path,
                preferred_resume |-> 0]}

add_document(docs, id, user_id, document_data) ==
    IF use_supabase
    THEN supabase_add_document(docs, id, user_id, document_data)
    ELSE sqlite_add_document(docs, id, user_id, document_data)

\* --------------------------------------------- save_documents_to_database
\* len(documents_df[documents_df['preferred_resume'] == True])
PreferredCount(documents_df) ==
    Cardinality({i \in DOMAIN documents_df : documents_df[i].preferred_resume = TRUE})

\* preferred_value = 1 if row['preferred_resume'] else 0
PreferredValue(row) == IF row.preferred_resume THEN 1 ELSE 0

\* variant: an update that only ever sets the flag and never clears it
UpdatePreferredOnlySet(docs, row, user_id) ==
    {IF d.id = row.id /\ d.user_id = user_id /\ row.preferred_resume
     THEN [d EXCEPT !.preferred_resume = 1]
     ELSE d : d \in docs}

\* variant: an update that writes every column of the grid row
UpdateWholeRow(docs, row, user_id) ==
    {IF d.id = row.id /\ d.user_id = user_id
     THEN [d EXCEPT !.preferred_resume = IF row.preferred_resume THEN 1 ELSE 0,
                    !.document_name = row.document_name,
                    !.document_type = row.document_type]
     ELSE d : d \in docs}

\* UPDATE documents SET preferred_resume = ? WHERE id = ? AND user_id = ?
UpdatePreferred(docs, row, user_id) ==
    {IF d.id = row.id /\ d.user_id = user_id
     THEN [d EXCEPT !.preferred_resume = PreferredValue(row)]
     ELSE d : d \in docs}

\* variant: no ownership check, and an UPDATE ... WHERE id = ? alone
SaveRowAnyOwner(docs, row, user_id) ==
    {IF d.id = row.id
     THEN [d EXCEPT !.preferred_resume = IF row.preferred_resume THEN 1 ELSE 0]
     ELSE d : d \in docs}

\* one turn of the loop over documents_df.iterrows(): the ownership check,
\* then the update
SaveRow(docs, row, user_id) ==
    LET found == DocumentById(docs, row.id)
    IN  IF found = {} \/ (\E d \in found : d.user_id # user_id)
        THEN docs
        ELSE UpdatePreferred(docs, row, user_id)

RECURSIVE SaveRows(_, _, _, _)
SaveRows(docs, documents_df, user_id, i) ==
    IF i > Len(documents_df)
    THEN docs
    ELSE SaveRows(SaveRow(docs, documents_df[i], user_id), documents_df, user_id, i + 1)

\* variant: the rows are written before the batch is counted
SaveThenValidate(docs, user_id, documents_df) ==
    IF PreferredCount(documents_df) > 1
    THEN [ok |-> FALSE, message |-> MsgOnlyOne,
          documents |-> SaveRows(docs, documents_df, user_id, 1)]
    ELSE [ok |-> TRUE, message |-> MsgUpdated,
          documents |-> SaveRows(docs, documents_df, user_id, 1)]

\* the (ok, message, table) a save ends with
sqlite_save_documents_to_database(docs, user_id, documents_df) ==
    IF PreferredCount(documents_df) > 1
    THEN [ok |-> FALSE, message |-> MsgOnlyOne, documents |-> docs]
    ELSE [ok |-> TRUE, message |-> MsgUpdated,
          documents |-> SaveRows(docs, documents_df, user_id, 1)]

supabase_save_documents_to_database(docs, user_id, documents_df) ==
    IF PreferredCount(documents_df) > 1
    THEN [ok |-> FALSE, message |-> MsgOnlyOne, documents |-> docs]
    ELSE [ok |-> TRUE, message |-> MsgUpdated,
          documents |-> SaveRows(docs, documents_df, user_id, 1)]

save_documents_to_database(docs, user_id, documents_df) ==
    IF use_supabase
    THEN supabase_save_documents_to_database(docs, user_id, documents_df)
    ELSE sqlite_save_documents_to_database(docs, user_id, documents_df)

\* the save when the store raises on the statements of row i of a batch that
\* passed the count. SQLite: the except branch calls conn.rollback(), and the
\* UPDATEs of the rows before i were never committed. Supabase: each UPDATE
\* of the rows before i was committed by its own .execute(), and the except
\* branch only returns
sqlite_save_documents_store_error(docs, user_id, documents_df, i) ==
    [ok |-> FALSE, message |-> MsgStoreError, documents |-> docs]

supabase_save_documents_store_error(docs, user_id, documents_df, i) ==
    [ok |-> FALSE, message |-> MsgStoreError,
     documents |-> SaveRows(docs, SubSeq(documents_df, 1, i - 1), user_id, 1)]

save_documents_store_error(docs, user_id, documents_df, i) ==
    IF use_supabase
    THEN supabase_save_documents_store_error(docs, user_id, documents_df, i)
    ELSE sqlite_save_documents_store_error(docs, user_id, documents_df, i)

\* --------------------------------------------------------- delete_document
\* SELECT file_path FROM documents WHERE id = ? AND user_id = ?, then
\* DELETE FROM documents WHERE id = ? AND user_id = ?, then os.remove of the
\* file when file_path is set and the path exists
sqlite_delete_document(docs, user_id, document_id) ==
    LET document == {d \in docs : d.id = document_id /\ d.user_id = user_id}
    IN  IF document = {}
        THEN [ok |-> FALSE, message |-> MsgDenied, documents |-> docs, files |-> files]
        ELSE [ok |-> TRUE, message |-> MsgDeleted,
              documents |-> docs \ document,
              files |-> files \ {d.file_path : d \in {x \in document : x.file_path # NULL}}]

\* select('user_id').eq('id', document_id), then delete().eq('id').eq('user_id');
\* the file system is not touched
\* delete_document on SQLite when conn.commit() raises: the SELECT found the
\* row, the DELETE ran inside the transaction, os.remove ran, and the except
\* branch rolls the DELETE back
sqlite_delete_document_commit_error(docs, user_id, document_id) ==
    LET document == {d \in docs : d.id = document_id /\ d.user_id = user_id}
    IN  [ok |-> FALSE, message |-> MsgDeleteError,
         documents |-> docs,
         files |-> files \ {d.file_path : d \in {x \in document : x.file_path # NULL}}]

\* a delete that tells a missing document from another user's
DeleteDocumentTellsApart(docs, user_id, document_id) ==
    LET doc_check == DocumentById(docs, document_id)
    IN  IF doc_check = {}
        THEN [ok |-> FALSE, message |-> "Document not found", documents |-> docs,
              files |-> files]
        ELSE IF \E d \in doc_check : d.user_id # user_id
        THEN [ok |-> FALSE, message |-> MsgDenied, documents |-> docs, files |-> files]
        ELSE [ok |-> TRUE, message |-> MsgDeleted,
              documents |-> {d \in docs : ~(d.id = document_id /\ d.user_id = user_id)},
              files |-> files]

supabase_delete_document(docs, user_id, document_id) ==
    LET doc_check == DocumentById(docs, document_id)
    IN  IF doc_check = {} \/ (\E d \in doc_check : d.user_id # user_id)
        THEN [ok |-> FALSE, message |-> MsgDenied, documents |-> docs, files |-> files]
        ELSE [ok |-> TRUE, message |-> MsgDeleted,
              documents |-> {d \in docs : ~(d.id = document_id /\ d.user_id = user_id)},
              files |-> files]

delete_document(docs, user_id, document_id) ==
    IF use_supabase
    THEN supabase_delete_document(docs, user_id, document_id)
    ELSE sqlite_delete_document(docs, user_id, document_id)

\* ------------------------------------------------------------------- jobs
\* INSERT INTO jobs (user_id, ..., status, ...): the row carries the caller
\* an INSERT that stores the date_added of job_data
AddJobCallerDate(js, id, user_id, job_data) ==
    js \cup {[id |-> id, user_id |-> user_id, status |-> job_data.status,
              date_added |-> job_data.date_added]}

sqlite_add_job(js, id, user_id, job_data) ==
    js \cup {[id |-> id, user_id |-> user_id, status |-> job_data.status,
              date_added |-> strftime_datetime(datetime_now)]}

supabase_add_job(js, id, user_id, job_data) ==
    js \cup {[id |-> id, user_id |-> user_id, status |-> job_data.status,
              date_added |-> strftime_datetime(datetime_now)]}

add_job(js, id, user_id, job_data) ==
    IF use_supabase
    THEN supabase_add_job(js, id, user_id, job_data)
    ELSE sqlite_add_job(js, id, user_id, job_data)

\* the scraper's save_job_to_database: INSERT INTO jobs (company_name, ...,
\* status, ..., date_added), no user_id column in the statement
save_job_to_database(js, id, job_details) ==
    js \cup {[id |-> id, user_id |-> NULL, status |-> job_details.application_status,
              date_added |-> strftime_datetime(datetime_now)]}

\* pd.notna(row['id'])
notna(v) == v # NULL

\* edited_ids = set(jobs_df['id'].dropna())
EditedIds(jobs_df) == {jobs_df[i].id : i \in DOMAIN jobs_df} \ {NULL}

\* current_ids is every id of the table (SELECT id FROM jobs);
\* DELETE FROM jobs WHERE id IN (current_ids - edited_ids)
DeleteRemoved(js, jobs_df) ==
    LET current_ids == {j.id : j \in js}
        ids_to_delete == current_ids \ EditedIds(jobs_df)
    IN  {j \in js : j.id \notin ids_to_delete}

\* one turn of the loop of the Jobs Portal save: UPDATE jobs SET ... WHERE
\* id = ?, or INSERT INTO jobs (company_name, ..., date_added, ...) with no
\* user_id
PortalSaveRow(t, row) ==
    IF notna(row.id)
    THEN [jobs |-> {IF j.id = row.id THEN [j EXCEPT !.status = row.status] ELSE j
                      : j \in t.jobs},
          seq |-> t.seq]
    ELSE [jobs |-> t.jobs \cup {[id |-> t.seq + 1, user_id |-> NULL, status |-> row.status,
                                 date_added |-> strftime_datetime(datetime_now)]},
          seq |-> t.seq + 1]

RECURSIVE PortalSaveRows(_, _, _)
PortalSaveRows(t, jobs_df, i) ==
    IF i > Len(jobs_df)
    THEN t
    ELSE PortalSaveRows(PortalSaveRow(t, jobs_df[i]), jobs_df, i + 1)

\* save_jobs_to_database of jobs_portal.py: the SQLite branch and the
\* Supabase branch make the same deletes, updates and inserts
portal_save_jobs_to_database(js, seq, jobs_df) ==
    PortalSaveRows([jobs |-> DeleteRemoved(js, jobs_df), seq |-> seq], jobs_df, 1)

\* one turn of the loop of app.py's save: UPDATE ... WHERE id = ? AND
\* user_id = ?, or INSERT ... with the session's user_id
AppSaveRow(t, row, user_id) ==
    IF notna(row.id)
    THEN [jobs |-> {IF j.id = row.id /\ j.user_id = user_id
                    THEN [j EXCEPT !.status = row.status] ELSE j : j \in t.jobs},
          seq |-> t.seq]
    ELSE [jobs |-> t.jobs \cup {[id |-> t.seq + 1, user_id |-> user_id, status |-> row.status,
                                 date_added |-> strftime_datetime(datetime_now)]},
          seq |-> t.seq + 1]

RECURSIVE AppSaveRows(_, _, _, _)
AppSaveRows(t, jobs_df, user_id, i) ==
    IF i > Len(jobs_df)
    THEN t
    ELSE AppSaveRows(AppSaveRow(t, jobs_df[i], user_id), jobs_df, user_id, i + 1)

\* save_jobs_to_database of app.py
app_save_jobs_to_database(js, seq, authenticated, user_id, jobs_df) ==
    IF ~authenticated
    THEN [ok |-> FALSE, message |-> MsgNotAuthenticated, jobs |-> js, seq |-> seq]
    ELSE IF user_id = NULL
    THEN [ok |-> FALSE, message |-> MsgNoUserId, jobs |-> js, seq |-> seq]
    ELSE LET t == AppSaveRows([jobs |-> js, seq |-> seq], jobs_df, user_id, 1)
         IN  [ok |-> TRUE, message |-> MsgChangesSaved, jobs |-> t.jobs, seq |-> t.seq]

\* ---------------------------------------------------------- get_user_stats
\* SELECT COUNT(*) ...; SELECT status, COUNT(*) ... GROUP BY status, which
\* has a group for the NULL status; SELECT COUNT(*) ... AND date_added >=
\* date('now', '-7 days'), a comparison of texts
sqlite_get_user_stats(js, user_id) ==
    LET rows == {j \in js : j.user_id = user_id}
        cutoff == strftime_date(sqlite_now - days(WindowDays))
    IN  [total_applications |-> Cardinality(rows),
         status_counts |-> [st \in {j.status : j \in rows} |->
                               Cardinality({j \in rows : j.status = st})],
         recent_applications |->
             Cardinality({j \in rows : TextLessEq(cutoff, j.date_added)})]

\* select('status, date_added').eq('user_id', user_id), then pandas:
\* value_counts() leaves the null status out; date_added >= seven_days_ago
\* compares texts
supabase_get_user_stats(js, user_id) ==
    LET jobs_df == {j \in js : j.user_id = user_id}
        seven_days_ago == strftime_date(datetime_now - days(WindowDays))
    IN  IF jobs_df = {}
        THEN [total_applications |-> 0,
              status_counts |-> [st \in {} |-> 0],
              recent_applications |-> 0]
        ELSE [total_applications |-> Cardinality(jobs_df),
              status_counts |-> [st \in {j.status : j \in jobs_df} \ {NullStatus} |->
                                    Cardinality({j \in jobs_df : j.status = st})],
              recent_applications |->
                  Cardinality({j \in jobs_df : TextLessEq(seven_days_ago, j.date_added)})]

get_user_stats(js, user_id) ==
    IF use_supabase
    THEN supabase_get_user_stats(js, user_id)
    ELSE sqlite_get_user_stats(js, user_id)

\* ------------------------------------------- user_profile and career_goals
\* SELECT id FROM user_profile WHERE user_id = ?, then UPDATE or INSERT
update_user_profile(profiles, id, user_id, profile_data) ==
    IF \E p \in profiles : p.user_id = user_id
    THEN {IF p.user_id = user_id
          THEN [p EXCEPT !.selected_resume = profile_data.selected_resume]
          ELSE p : p \in profiles}
    ELSE profiles \cup {[id |-> id, user_id |-> user_id,
                         selected_resume |-> profile_data.selected_resume]}

\* user_id INTEGER UNIQUE of the hosted user_profile table. The table of the
\* SQLite file is the one utils.init_db creates when utils is imported, with
\* no user_id column; migrate_existing_data adds the column with ALTER TABLE,
\* without UNIQUE, and the CREATE TABLE IF NOT EXISTS of init_db finds the
\* table there
user_id_unique == use_supabase

\* the SELECT id FROM user_profile WHERE user_id = ? of update_user_profile
select_profile(profiles, user_id) == \E p \in profiles : p.user_id = user_id

\* the UPDATE ... WHERE user_id = ? of update_user_profile
update_profile(profiles, user_id, profile_data) ==
    {IF p.user_id = user_id
     THEN [p EXCEPT !.selected_resume = profile_data.selected_resume]
     ELSE p : p \in profiles}

\* the INSERT of update_user_profile
insert_profile(profiles, id, user_id, profile_data) ==
    profiles \cup {[id |-> id, user_id |-> user_id,
                    selected_resume |-> profile_data.selected_resume]}

\* INSERT INTO career_goals (user_id, goals, submission_date)
\* an upsert: the new row takes the place of the user's earlier ones
AddCareerGoalsReplace(goals_table, id, user_id, goals) ==
    {g \in goals_table : g.user_id # user_id}
       \cup {[id |-> id, user_id |-> user_id, goals |-> goals,
               submission_date |-> strftime_datetime(datetime_now)]}

add_career_goals(goals_table, id, user_id, goals) ==
    goals_table \cup {[id |-> id, user_id |-> user_id, goals |-> goals,
                       submission_date |-> strftime_datetime(datetime_now)]}

\* ------------------------------------------------------------------ users
\* save_users_to_database: DELETE FROM users WHERE id IN (current_ids -
\* edited_ids). The tables of init_db name users(id) in a FOREIGN KEY with no
\* ON DELETE action and no connection sets PRAGMA foreign_keys, so the
\* statement touches the users table alone
save_users_to_database(us, users_df) ==
    LET current_ids == {u.id : u \in us}
        edited_ids == {users_df[i].id : i \in DOMAIN users_df} \ {NULL}
        ids_to_delete == current_ids \ edited_ids
    IN  {u \in us : u.id \notin ids_to_delete}

\* SELECT id FROM users WHERE username = ?
select_username(us, username) == \E u \in us : u.username = username

\* SELECT id FROM users WHERE email = ?
select_email(us, email) == \E u \in us : u.email = email

\* if email: None and the empty text are both false
truthy(text) == text # "" /\ text # NullEmail

\* an INSERT that no constraint of the table turns away
InsertUserUnconstrained(us, id, username, email) ==
    [refused |-> FALSE,
     users |-> us \cup {[id |-> id, username |-> username, email |-> email]}]

\* INSERT INTO users under username TEXT UNIQUE NOT NULL and email TEXT
\* UNIQUE: a NULL email equals no other, an empty one equals the empty ones
insert_user(us, id, username, email) ==
    IF \/ \E u \in us : u.username = username
       \/ email # NullEmail /\ \E u \in us : u.email = email
    THEN [refused |-> TRUE, users |-> us]
    ELSE [refused |-> FALSE,
          users |-> us \cup {[id |-> id, username |-> username, email |-> email]}]

\* the id AUTOINCREMENT and SERIAL give the next row
next_user_id(us) == Cardinality(us) + 1

\* user_id INTEGER REFERENCES users(id) ON DELETE CASCADE, the tables of
\* create_supabase_tables.py: the rows that name a deleted user go with it
on_delete_cascade(rows, us) ==
    {r \in rows : r.user_id = NULL \/ r.user_id \in {u.id : u \in us}}

\* ------------------------------------------------------------------- reads
\* SELECT * FROM jobs WHERE user_id = ?
get_user_jobs(js, user_id) == {j \in js : j.user_id = user_id}

\* SELECT * FROM documents WHERE user_id = ?
get_user_documents(docs, user_id) == {d \in docs : d.user_id = user_id}

\* SELECT * FROM user_profile WHERE user_id = ?
get_user_profile(profiles, user_id) == {p \in profiles : p.user_id = user_id}

\* SELECT * FROM career_goals WHERE user_id = ?
get_user_career_goals(goals_table, user_id) == {g \in goals_table : g.user_id = user_id}

\* ORDER BY submission_date DESC, and order('submission_date', desc=True): the
\* rows in any order whose submission_date never rises; rows of one
\* submission_date come in the order the store happens to produce
order_by_submission_date_desc(rows) ==
    {df \in [1..Cardinality(rows) -> rows] :
        /\ \A i, j \in DOMAIN df : i # j => df[i] # df[j]
        /\ \A i, j \in DOMAIN df :
              i < j => TextLessEq(df[j].submission_date, df[i].submission_date)}

\* SELECT * FROM documents WHERE user_id = ? AND preferred_resume = 1 AND
\* document_type = 'Resume' LIMIT 1: the rows the one returned is taken from
get_preferred_resume(docs, user_id) ==
    {d \in docs : d.user_id = user_id /\ d.preferred_resume = 1 /\ d.document_type = "Resume"}

\* the Jobs Database tab: SELECT * FROM jobs ORDER BY date_added DESC
load_jobs_grid(js) == js

\* ----------------------------------------------------------------- actions
\* unclosed: the SQLite connections the call opened and had not closed when
\* it returned
Called(op, user_id, batch, id) ==
    [op |-> op, user_id |-> user_id, batch |-> batch, id |-> id, unclosed |-> 0]

NoCall == Called("none", NULL, <<>>, NULL)

\* where one session stands inside save_documents_to_database
SaveAt(pc, user_id, batch, i, written, overlapped) ==
    [pc |-> pc, user_id |-> user_id, batch |-> batch, i |-> i, written |-> written,
     overlapped |-> overlapped]

NoSave == SaveAt("idle", NULL, <<>>, 0, <<>>, FALSE)

\* where one session stands inside update_user_profile: profile is what the
\* SELECT of the call returned
ProfileCallAt(pc, user_id, profile_data, profile) ==
    [pc |-> pc, user_id |-> user_id, profile_data |-> profile_data, profile |-> profile]

\* st.session_state.username = None
NoUsername == "<None>"

\* the keys of st.session_state the login writes
SessionState(authenticated, username, user_id) ==
    [authenticated |-> authenticated, username |-> username, user_id |-> user_id]

\* the session as main() initialises it
LoggedOut == SessionState(FALSE, NoUsername, NULL)

\* where one session stands inside register_user
RegisterCallAt(pc, username, email) == [pc |-> pc, username |-> username, email |-> email]

NoRegisterCall == RegisterCallAt("idle", "", "")

NoProfileCall == ProfileCallAt("idle", NULL, [selected_resume |-> ""], FALSE)

AddDocument(user_id, document_data) ==
    /\ documents' = add_document(documents, documents_seq + 1, user_id, document_data)
    /\ documents_seq' = documents_seq + 1
    /\ call' = Called("add_document", user_id, <<document_data>>, documents_seq + 1)
    /\ result' = [ok |-> TRUE, message |-> MsgAdded]
    /\ UNCHANGED <<deployment, clock, files, users, saveCalls, jobTables, profileTables, goalTables>>

\* upload_document_with_content: the text is extracted first; an extraction
\* that fails returns its message and nothing is inserted; an INSERT that
\* raises (the SQLite schema of init_db has no document_content column) is
\* caught and reported
\* the connections upload_document_with_content leaves open: the SQLite
\* branch closes its connection after the commit, inside the try, and the
\* except branch returns without a close; the extraction fails before any
\* connection is opened
upload_unclosed(outcome) ==
    IF ~use_supabase /\ outcome = "insert_failed" THEN 1 ELSE 0

UploadDocumentWithContent(user_id, document_name, document_type, outcome) ==
    /\ documents' =
         IF outcome = "stored"
         THEN documents \cup {[id |-> documents_seq + 1,
                               user_id |-> user_id,
                               document_name |-> document_name,
                               document_type |-> document_type,
                               file_path |-> NULL,
                               preferred_resume |-> 0]}
         ELSE documents
    /\ documents_seq' = IF outcome = "stored" THEN documents_seq + 1 ELSE documents_seq
    /\ call' = [Called("upload_document_with_content", user_id, <<>>,
                       IF outcome = "stored" THEN documents_seq + 1 ELSE NULL)
                   EXCEPT !.unclosed = upload_unclosed(outcome)]
    /\ result' = CASE outcome = "stored" -> [ok |-> TRUE, message |-> MsgUploaded]
                   [] outcome = "extract_failed" -> [ok |-> FALSE, message |-> MsgExtract]
                   [] OTHER -> [ok |-> FALSE, message |-> MsgUploadError]
    /\ UNCHANGED <<deployment, clock, files, users, saveCalls, jobTables, profileTables, goalTables>>

SaveDocuments(user_id, documents_df) ==
    LET r == save_documents_to_database(documents, user_id, documents_df)
    IN  /\ documents' = r.documents
        /\ call' = Called("save_documents_to_database", user_id, documents_df, NULL)
        /\ result' = [ok |-> r.ok, message |-> r.message]
        /\ UNCHANGED <<deployment, clock, files, users, saveCalls, documents_seq, jobTables, profileTables, goalTables>>

DeleteDocument(user_id, document_id) ==
    LET r == delete_document(documents, user_id, document_id)
    IN  /\ documents' = r.documents
        /\ files' = r.files
        /\ call' = Called("delete_document", user_id, <<>>, document_id)
        /\ result' = [ok |-> r.ok, message |-> r.message]
        /\ UNCHANGED <<deployment, clock, users, saveCalls, documents_seq, jobTables, profileTables, goalTables>>

\* ------------------------------------------------------------------ inputs
\* A DataFrame over the rows R: the grid shows each document once (id is the
\* primary key and the grid's rows are fixed) and the caller may hand over any
\* part of it.  Updates of rows with different ids do not depend on their
\* order, so a frame is drawn with its rows in ascending id order.
DataFrames(R) ==
    {df \in UNION {[1..k -> R] : k \in 0..Cardinality({r.id : r \in R})} :
        \A i, j \in DOMAIN df : i < j => df[i].id < df[j].id}

\* the rows of the documents grid as the save reads them: id, preferred_resume
GridRows(n) == [id : 1..n, preferred_resume : BOOLEAN]

\* rows that also carry the grid's other columns, edited or not
EditedRows(n, types) == [id : 1..n, preferred_resume : BOOLEAN,
                         document_name : DocNames, document_type : types]

UploadOutcomes == {"stored", "extract_failed", "insert_failed"}

\* ----------------------------------------------------------- specification
Init ==
    /\ deployment \in RunningDeployments
    /\ clock = ServerClock
    /\ files = {}
    /\ users = UserRows
    /\ documents = {}
    /\ documents_seq = 0
    /\ jobs = {}
    /\ jobs_seq = 0
    /\ user_profile = {}
    /\ user_profile_seq = 0
    /\ career_goals = {}
    /\ career_goals_seq = 0
    /\ call = NoCall
    /\ result = [ok |-> TRUE, message |-> ""]
    /\ saves = [s \in Sessions |-> NoSave]
    /\ db_lock = NULL
    /\ profile_calls = [s \in Sessions |-> NoProfileCall]
    /\ register_calls = [s \in Sessions |-> NoRegisterCall]
    /\ session_state = [s \in Sessions |-> LoggedOut]

NextDocuments(n, names, types, batches) ==
    \/ \E u \in Users, name \in names, type \in types :
          /\ documents_seq < n
          /\ AddDocument(u, [document_name |-> name, document_type |-> type,
                             file_path |-> NULL])
    \/ \E u \in Users, name \in names, type \in types, outcome \in UploadOutcomes :
          /\ documents_seq < n
          /\ UploadDocumentWithContent(u, name, type, outcome)
    \/ \E u \in Users, documents_df \in batches : SaveDocuments(u, documents_df)
    \/ \E u \in Users, document_id \in 1..n : DeleteDocument(u, document_id)

GridFrames == DataFrames(GridRows(MaxDocs))

\* no write path reads the type of a document, so 'Other' is written exactly
\* as 'Cover Letter' is: uploads draw the type from these two
UploadTypes == {"Resume", "Cover Letter"}

\* Spec: the documents table under uploads, batch saves and deletes; every
\* document is uploaded under the same name
Next == NextDocuments(MaxDocs, {"Resume_A"}, UploadTypes, GridFrames)

Spec == Init /\ [][Next]_vars

\* SpecFrame: the same operations, with batches whose rows carry a name and a
\* type of their own
EditedFrames == DataFrames(EditedRows(MaxFrameDocs, UploadTypes))

NextFrame == NextDocuments(MaxFrameDocs, DocNames, UploadTypes, EditedFrames)

SpecFrame == Init /\ [][NextFrame]_vars

\* a save during which the store fails at row i
SaveDocumentsStoreError(user_id, documents_df, i) ==
    LET r == save_documents_store_error(documents, user_id, documents_df, i)
    IN  /\ PreferredCount(documents_df) <= 1
        /\ i \in DOMAIN documents_df
        /\ documents' = r.documents
        /\ call' = Called("save_documents_to_database", user_id, documents_df, NULL)
        /\ result' = [ok |-> r.ok, message |-> r.message]
        /\ UNCHANGED <<deployment, clock, files, users, saveCalls, documents_seq, jobTables, profileTables, goalTables>>

\* SpecFault: the documents table when the store may fail in the middle of a
\* save
NextFault ==
    \/ NextDocuments(MaxDocs, {"Resume_A"}, {"Resume"}, GridFrames)
    \/ \E u \in Users, documents_df \in GridFrames, i \in 1..MaxDocs :
          SaveDocumentsStoreError(u, documents_df, i)

SpecFault == Init /\ [][NextFault]_vars

\* get_db_connection() is sqlite3.connect('data/jobs.db'), which creates the
\* file when it is not there: init_db() at the import of utils and at the
\* start of app.py
StartApp ==
    /\ ~deployment.jobs_db
    /\ deployment' = [deployment EXCEPT !.jobs_db = TRUE]
    /\ UNCHANGED <<clock, files, users, saveCalls, documentTables, jobTables,
                   profileTables, goalTables, call, result>>

\* SpecEnv: the data layer on every machine, before and after the
\* application has started
InitEnv ==
    /\ deployment \in Deployments
    /\ clock = ServerClock
    /\ files = {}
    /\ users = UserRows
    /\ documents = {}
    /\ documents_seq = 0
    /\ jobs = {}
    /\ jobs_seq = 0
    /\ user_profile = {}
    /\ user_profile_seq = 0
    /\ career_goals = {}
    /\ career_goals_seq = 0
    /\ call = NoCall
    /\ result = [ok |-> TRUE, message |-> ""]
    /\ saves = [s \in Sessions |-> NoSave]
    /\ db_lock = NULL
    /\ profile_calls = [s \in Sessions |-> NoProfileCall]
    /\ register_calls = [s \in Sessions |-> NoRegisterCall]
    /\ session_state = [s \in Sessions |-> LoggedOut]

NextEnv ==
    \/ StartApp
    \/ NextDocuments(MaxDocs, {"Resume_A"}, {"Resume"}, GridFrames)

SpecEnv == InitEnv /\ [][NextEnv]_vars

\* ------------------------------------- save_documents_to_database, by steps
\* One call is a walk over its DataFrame: for each row the ownership SELECT,
\* then the UPDATE, and after the last row the return. On Supabase every
\* .execute() is a request of its own, committed when it returns. On SQLite
\* the first UPDATE opens the connection's transaction and takes the write
\* lock of the file, the UPDATEs stay in the transaction (written) until
\* conn.commit(), and a second writer waits for the lock or gives up with
\* "database is locked".
Running(s) == saves[s].pc \in {"select", "update", "return"}

\* the position after row i: the next row's SELECT, or the end of the loop
AfterRow(sv) ==
    [sv EXCEPT !.i = sv.i + 1,
               !.pc = IF sv.i + 1 > Len(sv.batch) THEN "return" ELSE "select"]

\* the call is entered: the count of preferred rows is taken before any
\* statement is sent
StartSave(s, user_id, documents_df) ==
    LET meets == \E o \in Sessions \ {s} : Running(o)
    IN  /\ ~Running(s)
        /\ IF PreferredCount(documents_df) > 1
           THEN /\ saves' = [saves EXCEPT ![s] =
                                SaveAt("done", user_id, documents_df, 0, <<>>, FALSE)]
                /\ call' = Called("save_documents_to_database", user_id, documents_df, NULL)
                /\ result' = [ok |-> FALSE, message |-> MsgOnlyOne]
           ELSE /\ saves' = [o \in Sessions |->
                                IF o = s
                                THEN AfterRow(SaveAt("select", user_id, documents_df, 0,
                                                     <<>>, meets))
                                ELSE IF Running(o)
                                THEN [saves[o] EXCEPT !.overlapped = TRUE]
                                ELSE saves[o]]
                /\ UNCHANGED <<call, result>>
        /\ UNCHANGED <<session_state, deployment, clock, files, users, profile_calls, register_calls, db_lock, documentTables, jobTables, profileTables, goalTables>>

\* SELECT user_id FROM documents WHERE id = ?, and the continue
SelectOwner(s) ==
    LET sv == saves[s]
        found == DocumentById(documents, sv.batch[sv.i].id)
    IN  /\ sv.pc = "select"
        /\ saves' = [saves EXCEPT ![s] =
                        IF found = {} \/ (\E d \in found : d.user_id # sv.user_id)
                        THEN AfterRow(sv)
                        ELSE [sv EXCEPT !.pc = "update"]]
        /\ UNCHANGED <<session_state, deployment, clock, files, users, profile_calls, register_calls, db_lock, documentTables, jobTables, profileTables,
                       goalTables, call, result>>

\* UPDATE documents SET preferred_resume = ? WHERE id = ? AND user_id = ?
UpdateRow(s) ==
    LET sv == saves[s]
        row == sv.batch[sv.i]
    IN  /\ sv.pc = "update"
        /\ IF use_supabase
           THEN /\ documents' = UpdatePreferred(documents, row, sv.user_id)
                /\ saves' = [saves EXCEPT ![s] = AfterRow(sv)]
                /\ UNCHANGED db_lock
           ELSE /\ db_lock \in {NULL, s}
                /\ db_lock' = s
                /\ saves' = [saves EXCEPT ![s] =
                                AfterRow([sv EXCEPT !.written = Append(sv.written, row)])]
                /\ UNCHANGED documents
        /\ UNCHANGED <<session_state, deployment, clock, files, users, profile_calls, register_calls, documents_seq, jobTables, profileTables, goalTables,
                       call, result>>

\* the UPDATE of a second SQLite writer runs out of its busy timeout: the
\* except branch rolls back and returns the error
UpdateLocked(s) ==
    LET sv == saves[s]
    IN  /\ sv.pc = "update"
        /\ ~use_supabase
        /\ db_lock \notin {NULL, s}
        /\ saves' = [saves EXCEPT ![s] = [sv EXCEPT !.pc = "done", !.written = <<>>]]
        /\ call' = Called("save_documents_to_database", sv.user_id, sv.batch, NULL)
        /\ result' = [ok |-> FALSE, message |-> MsgLocked]
        /\ UNCHANGED <<session_state, deployment, clock, files, users, profile_calls, register_calls, db_lock, documentTables, jobTables, profileTables,
                       goalTables>>

\* conn.commit() on SQLite, and the return of the call
ReturnSave(s) ==
    LET sv == saves[s]
    IN  /\ sv.pc = "return"
        /\ documents' = IF use_supabase THEN documents
                        ELSE SaveRows(documents, sv.written, sv.user_id, 1)
        /\ db_lock' = IF db_lock = s THEN NULL ELSE db_lock
        /\ saves' = [saves EXCEPT ![s] = [sv EXCEPT !.pc = "done", !.written = <<>>]]
        /\ call' = Called("save_documents_to_database", sv.user_id, sv.batch, NULL)
        /\ result' = [ok |-> TRUE, message |-> MsgUpdated]
        /\ UNCHANGED <<session_state, deployment, clock, files, users, profile_calls, register_calls, documents_seq, jobTables, profileTables, goalTables>>

\* ------------------------------------------------------------ jobs actions
AddJob(user_id, job_data) ==
    /\ jobs' = add_job(jobs, jobs_seq + 1, user_id, job_data)
    /\ jobs_seq' = jobs_seq + 1
    /\ call' = Called("add_job", user_id, <<>>, jobs_seq + 1)
    /\ result' = [ok |-> TRUE, message |-> MsgJobAdded]
    /\ UNCHANGED <<deployment, clock, files, users, saveCalls, documentTables, profileTables, goalTables>>

\* the Jobs Submissions form: an INSERT carrying the session's user_id, on
\* either backend
SubmitJob(user_id, status) ==
    /\ jobs' = jobs \cup {[id |-> jobs_seq + 1, user_id |-> user_id, status |-> status,
                           date_added |-> strftime_datetime(datetime_now)]}
    /\ jobs_seq' = jobs_seq + 1
    /\ call' = Called("job_submission_form", user_id, <<>>, jobs_seq + 1)
    /\ result' = [ok |-> TRUE, message |-> MsgJobAdded]
    /\ UNCHANGED <<deployment, clock, files, users, saveCalls, documentTables, profileTables, goalTables>>

\* the scraper writes through get_db_connection(), the SQLite file, whatever
\* the backend: with Supabase active the active store is not written
ScraperSaveJob(user_id, job_details) ==
    /\ jobs' = IF use_supabase THEN jobs
               ELSE save_job_to_database(jobs, jobs_seq + 1, job_details)
    /\ jobs_seq' = IF use_supabase THEN jobs_seq ELSE jobs_seq + 1
    /\ call' = Called("save_job_to_database", user_id, <<>>,
                      IF use_supabase THEN NULL ELSE jobs_seq + 1)
    /\ result' = [ok |-> TRUE, message |-> MsgJobSaved]
    /\ UNCHANGED <<deployment, clock, files, users, saveCalls, documentTables, profileTables, goalTables>>

\* Save Changes of the Jobs Database tab, while user_id is logged in
PortalSaveJobs(user_id, jobs_df) ==
    LET t == portal_save_jobs_to_database(jobs, jobs_seq, jobs_df)
    IN  /\ jobs' = t.jobs
        /\ jobs_seq' = t.seq
        /\ call' = Called("jobs_portal.save_jobs_to_database", user_id, <<>>, NULL)
        /\ result' = [ok |-> TRUE, message |-> MsgChangesSaved]
        /\ UNCHANGED <<deployment, clock, files, users, saveCalls, documentTables, profileTables, goalTables>>

\* app.py's save reads the session and writes through get_db_connection()
AppSaveJobs(authenticated, user_id, jobs_df) ==
    LET r == app_save_jobs_to_database(jobs, jobs_seq, authenticated, user_id, jobs_df)
    IN  /\ jobs' = IF use_supabase THEN jobs ELSE r.jobs
        /\ jobs_seq' = IF use_supabase THEN jobs_seq ELSE r.seq
        /\ call' = Called("app.save_jobs_to_database", user_id, <<>>, NULL)
        /\ result' = [ok |-> r.ok, message |-> r.message]
        /\ UNCHANGED <<deployment, clock, files, users, saveCalls, documentTables, profileTables, goalTables>>

UpdateUserProfile(user_id, profile_data) ==
    /\ user_profile' = update_user_profile(user_profile, user_profile_seq + 1,
                                           user_id, profile_data)
    /\ user_profile_seq' = IF \E p \in user_profile : p.user_id = user_id
                           THEN user_profile_seq ELSE user_profile_seq + 1
    /\ call' = Called("update_user_profile", user_id, <<>>, NULL)
    /\ result' = [ok |-> TRUE, message |-> MsgProfileUpdated]
    /\ UNCHANGED <<deployment, clock, files, users, saveCalls, documentTables, jobTables, goalTables>>

AddCareerGoals(user_id, goals) ==
    /\ career_goals' = add_career_goals(career_goals, career_goals_seq + 1, user_id, goals)
    /\ career_goals_seq' = career_goals_seq + 1
    /\ call' = Called("add_career_goals", user_id, <<>>, career_goals_seq + 1)
    /\ result' = [ok |-> TRUE, message |-> MsgGoalsAdded]
    /\ UNCHANGED <<deployment, clock, files, users, saveCalls, documentTables, jobTables, profileTables>>

\* the rows of the jobs grid: a kept row has its id, a row added in the grid
\* (num_rows = "dynamic") has none
JobGridRows == [id : {NULL} \cup (1..MaxJobs), status : JobStatuses]

JobFrames == UNION {[1..k -> JobGridRows] : k \in 0..MaxGrid}

NewRows(jobs_df) == Cardinality({i \in DOMAIN jobs_df : jobs_df[i].id = NULL})

OwnedRows == documents_seq + user_profile_seq + career_goals_seq

\* SpecJobs: the jobs table under every path that writes it, next to the
\* creation paths of the other tables
NextJobs ==
    \/ \E u \in Users, status \in JobStatuses :
          /\ jobs_seq < MaxJobs
          /\ AddJob(u, [status |-> status])
    \/ \E u \in Users, status \in JobStatuses :
          /\ jobs_seq < MaxJobs
          /\ SubmitJob(u, status)
    \/ \E u \in Users, status \in JobStatuses :
          /\ jobs_seq < MaxJobs
          /\ ScraperSaveJob(u, [application_status |-> status])
    \/ \E u \in Users, jobs_df \in JobFrames :
          /\ load_jobs_grid(jobs) # {}
          /\ jobs_seq + NewRows(jobs_df) <= MaxJobs
          /\ PortalSaveJobs(u, jobs_df)
    \/ \E authenticated \in BOOLEAN, u \in Users \cup {NULL}, jobs_df \in JobFrames :
          /\ jobs_seq + NewRows(jobs_df) <= MaxJobs
          /\ AppSaveJobs(authenticated, u, jobs_df)
    \/ \E u \in Users :
          /\ OwnedRows < MaxOwned
          /\ AddDocument(u, [document_name |-> "Resume_A", document_type |-> "Resume",
                             file_path |-> NULL])
    \/ \E u \in Users :
          /\ OwnedRows < MaxOwned
          /\ UpdateUserProfile(u, [selected_resume |-> "Resume_A"])
    \/ \E u \in Users :
          /\ OwnedRows < MaxOwned
          /\ AddCareerGoals(u, "goals")

SpecJobs == Init /\ [][NextJobs]_vars

\* the batch has one row for each document of the user, and no other row
ListsAllOf(docs, user_id, df) ==
    /\ {df[i].id : i \in DOMAIN df} = DocumentIds(DocumentsOf(docs, user_id))
    /\ Len(df) = Cardinality(DocumentsOf(docs, user_id))

ConcFrames == DataFrames(GridRows(MaxConcDocs))

\* SpecConc: two sessions saving documents at the same time, statement by
\* statement. Save Changes submits the edited grid, which the page filled
\* from get_user_documents(user_id) on the run that handles the click: the
\* rows are the user's documents, the ticks are the user's
NextConc ==
    \/ \E u \in Users :
          /\ documents_seq < MaxConcDocs
          /\ AddDocument(u, [document_name |-> "Resume_A", document_type |-> "Resume",
                             file_path |-> NULL])
    \/ \E s \in Sessions, u \in Users, documents_df \in ConcFrames :
          /\ ListsAllOf(documents, u, documents_df)
          /\ StartSave(s, u, documents_df)
    \/ \E s \in Sessions : SelectOwner(s)
    \/ \E s \in Sessions : UpdateRow(s)
    \/ \E s \in Sessions : UpdateLocked(s)
    \/ \E s \in Sessions : ReturnSave(s)

SpecConc == Init /\ [][NextConc]_vars

\* ------------------------------------------------------------------- time
\* time passes between two calls: a second, a day, a week
AdvanceClock(seconds) ==
    /\ clock' = [clock EXCEPT !.now = @ + seconds]
    /\ UNCHANGED <<deployment, files, users, saveCalls, documentTables, jobTables,
                   profileTables, goalTables, call, result>>

GetUserStats(user_id) ==
    /\ call' = Called("get_user_stats", user_id, <<>>, NULL)
    /\ result' = [ok |-> TRUE, message |-> "", stats |-> get_user_stats(jobs, user_id)]
    /\ UNCHANGED <<deployment, clock, files, users, saveCalls, documentTables, jobTables,
                   profileTables, goalTables>>

\* the servers: local time on UTC, behind it, ahead of it
UtcOffsets == {0, 0 - 1, 1}

Pauses == {1, days(1), days(WindowDays)}

\* the last second of the model's calendar
LastSecond == days(WindowDays + 1) + days(WindowDays + 1) + 1

InitClock(offsets) ==
    /\ deployment \in RunningDeployments
    /\ clock \in {Clock(days(WindowDays + 1), o) : o \in offsets}
    /\ files = {}
    /\ users = UserRows
    /\ documents = {}
    /\ documents_seq = 0
    /\ jobs = {}
    /\ jobs_seq = 0
    /\ user_profile = {}
    /\ user_profile_seq = 0
    /\ career_goals = {}
    /\ career_goals_seq = 0
    /\ call = NoCall
    /\ result = [ok |-> TRUE, message |-> ""]
    /\ saves = [s \in Sessions |-> NoSave]
    /\ db_lock = NULL
    /\ profile_calls = [s \in Sessions |-> NoProfileCall]
    /\ register_calls = [s \in Sessions |-> NoRegisterCall]
    /\ session_state = [s \in Sessions |-> LoggedOut]

\* SpecStats: jobs added over the days, and the statistics read from them
InitStats == InitClock(UtcOffsets)

NextStats ==
    \/ \E u \in Users, status \in {"Applied", NullStatus} :
          /\ jobs_seq < MaxTimedJobs
          /\ AddJob(u, [status |-> status])
    \/ \E seconds \in Pauses :
          /\ clock.now + seconds <= LastSecond
          /\ AdvanceClock(seconds)
    \/ \E u \in Users : GetUserStats(u)

SpecStats == InitStats /\ [][NextStats]_vars

\* ------------------------------------------------------------------ files
\* the files of data/documents
Paths == 1..MaxFiles

\* open(file_path, "wb") and write: the file exists afterwards
WriteFile(file_path) ==
    /\ files' = files \cup {file_path}
    /\ call' = Called("open", NULL, <<>>, file_path)
    /\ result' = [ok |-> TRUE, message |-> ""]
    /\ UNCHANGED <<deployment, clock, users, saveCalls, documentTables, jobTables,
                   profileTables, goalTables>>

\* SpecFiles: documents with and without a file behind them, added by
\* callers that put a preferred_resume of their own into document_data, and
\* the Document Portal grid saved with the user's documents in it
NextFiles ==
    \/ \E file_path \in Paths : WriteFile(file_path)
    \/ \E u \in Users, file_path \in Paths \cup {NULL}, preferred_resume \in BOOLEAN :
          /\ documents_seq < MaxFileDocs
          /\ AddDocument(u, [document_name |-> "Resume_A", document_type |-> "Resume",
                             file_path |-> file_path,
                             preferred_resume |-> preferred_resume])
    \/ \E u \in Users, outcome \in UploadOutcomes :
          /\ documents_seq < MaxFileDocs
          /\ UploadDocumentWithContent(u, "Resume_A", "Resume", outcome)
    \/ \E u \in Users, documents_df \in DataFrames(GridRows(MaxFileDocs)) :
          /\ ListsAllOf(documents, u, documents_df)
          /\ SaveDocuments(u, documents_df)
    \/ \E u \in Users, document_id \in 1..MaxFileDocs : DeleteDocument(u, document_id)

SpecFiles == Init /\ [][NextFiles]_vars

\* --------------------------------------------------- profiles, step by step
\* update_user_profile is entered and its SELECT answered
SelectProfile(s, user_id, profile_data) ==
    /\ profile_calls[s].pc = "idle"
    /\ profile_calls' = [profile_calls EXCEPT ![s] =
                            ProfileCallAt("selected", user_id, profile_data,
                                          select_profile(user_profile, user_id))]
    /\ UNCHANGED <<session_state, deployment, clock, files, users, saves, db_lock, register_calls,
                   documentTables,
                   jobTables, profileTables, goalTables, call, result>>

\* the UPDATE or the INSERT the SELECT's answer chose, the commit, and the
\* return; an INSERT the store refuses is caught and reported
WriteProfile(s) ==
    LET pc == profile_calls[s]
        refused == /\ ~pc.profile
                   /\ user_id_unique
                   /\ select_profile(user_profile, pc.user_id)
    IN  /\ pc.pc = "selected"
        /\ user_profile' =
             IF pc.profile THEN update_profile(user_profile, pc.user_id, pc.profile_data)
             ELSE IF refused THEN user_profile
             ELSE insert_profile(user_profile, user_profile_seq + 1, pc.user_id,
                                 pc.profile_data)
        /\ user_profile_seq' = IF pc.profile THEN user_profile_seq
                               ELSE user_profile_seq + 1
        /\ profile_calls' = [profile_calls EXCEPT ![s] = NoProfileCall]
        /\ call' = Called("update_user_profile", pc.user_id, <<>>, NULL)
        /\ result' = IF refused THEN [ok |-> FALSE, message |-> MsgProfileError]
                     ELSE [ok |-> TRUE, message |-> MsgProfileUpdated]
        /\ UNCHANGED <<session_state, deployment, clock, files, users, saves, db_lock, register_calls,
                   documentTables,
                       jobTables, goalTables>>

\* SpecProfile: the sessions save profile settings, one call inside another
NextProfile ==
    \/ \E s \in Sessions, u \in Users, name \in DocNames :
          /\ user_profile_seq < MaxProfiles
          /\ SelectProfile(s, u, [selected_resume |-> name])
    \/ \E s \in Sessions : WriteProfile(s)

SpecProfile == Init /\ [][NextProfile]_vars

\* ------------------------------------------------------------ career goals
\* the Save Career Goals button: text that is blank once stripped is turned
\* away with a warning, any other is inserted with the time of the click
GoalTexts == {"goals", " "}

strip(text) == IF text = " " THEN "" ELSE text

SaveCareerGoals(user_id, text) ==
    /\ IF strip(text) # ""
       THEN /\ career_goals' = career_goals \cup
                 {[id |-> career_goals_seq + 1, user_id |-> user_id, goals |-> text,
                   submission_date |-> strftime_datetime(datetime_now)]}
            /\ career_goals_seq' = career_goals_seq + 1
       ELSE UNCHANGED goalTables
    /\ call' = Called("save_career_goals", user_id, <<>>,
                      IF strip(text) # "" THEN career_goals_seq + 1 ELSE NULL)
    /\ result' = [ok |-> strip(text) # "", message |-> ""]
    /\ UNCHANGED <<deployment, clock, files, users, saveCalls, documentTables, jobTables,
                   profileTables>>

\* get_user_career_goals: the user's rows as the store orders them
GetUserCareerGoals(user_id) ==
    \E rows \in order_by_submission_date_desc(get_user_career_goals(career_goals, user_id)) :
        /\ call' = Called("get_user_career_goals", user_id, <<>>, NULL)
        /\ result' = [ok |-> TRUE, message |-> "", rows |-> rows]
        /\ UNCHANGED <<deployment, clock, files, users, saveCalls, documentTables,
                       jobTables, profileTables, goalTables>>

\* SpecGoals: career goals submitted and read back, some within one second,
\* among the other calls of the data layer
NextGoals ==
    \/ \E u \in Users :
          /\ career_goals_seq < MaxGoals
          /\ AddCareerGoals(u, "goals")
    \/ \E u \in Users, text \in GoalTexts :
          /\ career_goals_seq < MaxGoals
          /\ SaveCareerGoals(u, text)
    \/ \E u \in Users : GetUserCareerGoals(u)
    \/ /\ clock.now < days(WindowDays + 1) + MaxGoalTicks
       /\ AdvanceClock(1)
    \/ \E u \in Users :
          /\ documents_seq + jobs_seq + user_profile_seq < MaxOthers
          /\ \/ AddJob(u, [status |-> "Applied"])
             \/ AddDocument(u, [document_name |-> "Resume_A", document_type |-> "Resume",
                                file_path |-> NULL])
             \/ UpdateUserProfile(u, [selected_resume |-> "Resume_A"])
    \/ \E u \in Users, documents_df \in DataFrames(GridRows(MaxOthers)) :
          /\ ListsAllOf(documents, u, documents_df)
          /\ SaveDocuments(u, documents_df)
    \/ \E u \in Users, document_id \in 1..MaxOthers : DeleteDocument(u, document_id)
    \/ \E u \in Users :
          /\ load_jobs_grid(jobs) # {}
          /\ PortalSaveJobs(u, <<>>)

SpecGoals == Init /\ [][NextGoals]_vars

\* ------------------------------------------------------------ credentials
\* get_supabase_client: the URL and the key are read from the secrets or the
\* environment, and a ValueError is raised when either is missing
supabase_credentials == deployment.SUPABASE_URL

\* an exception that leaves the call: what the caller gets is the exception,
\* not a pair
Raised(message) == [ok |-> FALSE, message |-> message, raised |-> TRUE]

\* every supabase_* function starts with supabase = get_supabase_client(),
\* before its try: the ValueError of a store without credentials leaves the
\* function and the dispatcher that called it
Dispatch(op, user_id, Operation) ==
    IF use_supabase /\ ~supabase_credentials
    THEN /\ call' = Called(op, user_id, <<>>, NULL)
         /\ result' = Raised(MsgNoCredentials)
         /\ UNCHANGED <<deployment, clock, files, users, saveCalls, documentTables,
                        jobTables, profileTables, goalTables>>
    ELSE Operation

\* SpecCreds: the write operations of the data layer on every machine, with
\* and without credentials for the hosted store
NextCreds ==
    \/ StartApp
    \/ \E u \in Users :
          /\ jobs_seq < MaxCredRows
          /\ Dispatch("add_job", u, AddJob(u, [status |-> "Applied"]))
    \/ \E u \in Users :
          /\ documents_seq < MaxCredRows
          /\ Dispatch("add_document", u,
                      AddDocument(u, [document_name |-> "Resume_A",
                                      document_type |-> "Resume", file_path |-> NULL]))
    \/ \E u \in Users :
          /\ career_goals_seq < MaxCredRows
          /\ Dispatch("add_career_goals", u, AddCareerGoals(u, "goals"))
    \/ \E u \in Users, name \in DocNames :
          Dispatch("update_user_profile", u,
                   UpdateUserProfile(u, [selected_resume |-> name]))
    \/ \E u \in Users, documents_df \in DataFrames(GridRows(MaxCredRows)) :
          Dispatch("save_documents_to_database", u, SaveDocuments(u, documents_df))
    \/ \E u \in Users, document_id \in 1..MaxCredRows :
          Dispatch("delete_document", u, DeleteDocument(u, document_id))

SpecCreds == InitEnv /\ [][NextCreds]_vars

\* ------------------------------------------------------------ registration
\* register_user, statement by statement. It is entered: a missing username
\* or password is turned away before any statement
RegisterReturn(s, username, email, ok, message, id) ==
    /\ register_calls' = [register_calls EXCEPT ![s] = NoRegisterCall]
    /\ call' = Called("register_user", NULL,
                      <<[username |-> username, email |-> email]>>, id)
    /\ result' = [ok |-> ok, message |-> message]

RegisterStart(s, username, password, email) ==
    /\ register_calls[s].pc = "idle"
    /\ IF username = "" \/ password = ""
       THEN /\ RegisterReturn(s, username, email, FALSE, MsgRequired, NULL)
       ELSE /\ register_calls' = [register_calls EXCEPT ![s] =
                                     RegisterCallAt("check_username", username, email)]
            /\ UNCHANGED <<call, result>>
    /\ UNCHANGED <<session_state, deployment, clock, files, users, saves, db_lock, profile_calls,
                   documentTables, jobTables, profileTables, goalTables>>

\* the username is looked up
RegisterCheckUsername(s) ==
    LET rc == register_calls[s]
    IN  /\ rc.pc = "check_username"
        /\ IF select_username(users, rc.username)
           THEN RegisterReturn(s, rc.username, rc.email, FALSE, MsgUsernameExists, NULL)
           ELSE /\ register_calls' = [register_calls EXCEPT ![s] =
                                         [rc EXCEPT !.pc = IF truthy(rc.email)
                                                           THEN "check_email"
                                                           ELSE "insert"]]
                /\ UNCHANGED <<call, result>>
        /\ UNCHANGED <<session_state, deployment, clock, files, users, saves, db_lock, profile_calls,
                       documentTables, jobTables, profileTables, goalTables>>

\* the email, when one was given, is looked up
RegisterCheckEmail(s) ==
    LET rc == register_calls[s]
    IN  /\ rc.pc = "check_email"
        /\ IF select_email(users, rc.email)
           THEN RegisterReturn(s, rc.username, rc.email, FALSE, MsgEmailRegistered, NULL)
           ELSE /\ register_calls' = [register_calls EXCEPT ![s] =
                                         [rc EXCEPT !.pc = "insert"]]
                /\ UNCHANGED <<call, result>>
        /\ UNCHANGED <<session_state, deployment, clock, files, users, saves, db_lock, profile_calls,
                       documentTables, jobTables, profileTables, goalTables>>

\* the INSERT, the commit and the return; an INSERT the table turns away is
\* caught and reported
RegisterInsert(s) ==
    LET rc == register_calls[s]
        r == insert_user(users, next_user_id(users), rc.username, rc.email)
    IN  /\ rc.pc = "insert"
        /\ users' = r.users
        /\ IF r.refused
           THEN RegisterReturn(s, rc.username, rc.email, FALSE,
                               IF use_supabase THEN MsgRegistrationError
                               ELSE MsgIntegrityError, NULL)
           ELSE RegisterReturn(s, rc.username, rc.email, TRUE, MsgRegistered,
                               next_user_id(users))
        /\ UNCHANGED <<session_state, deployment, clock, files, saves, db_lock, profile_calls,
                       documentTables, jobTables, profileTables, goalTables>>

\* what is typed into the Register form, and what a caller of register_user
\* may pass: an email left blank is the empty text, one left out is None
Usernames == {"", "user1", "new1", "new2"}
Passwords == {"", "secret"}
Emails == {NullEmail, "", "a@example.com"}

\* SpecRegister: the sessions register users, one call inside another
NextRegister ==
    \/ \E s \in Sessions, username \in Usernames, password \in Passwords,
          email \in Emails :
          /\ Cardinality(users) < MaxUsers
          /\ RegisterStart(s, username, password, email)
    \/ \E s \in Sessions : RegisterCheckUsername(s)
    \/ \E s \in Sessions : RegisterCheckEmail(s)
    \/ \E s \in Sessions : RegisterInsert(s)

SpecRegister == Init /\ [][NextRegister]_vars

\* --------------------------------------------------------- a failed commit
\* delete_document of the owner on SQLite, with a commit that raises (a
\* reader holds the file when the writer asks for the exclusive lock)
DeleteDocumentCommitError(user_id, document_id) ==
    LET r == sqlite_delete_document_commit_error(documents, user_id, document_id)
    IN  /\ ~use_supabase
        /\ \E d \in documents : d.id = document_id /\ d.user_id = user_id
        /\ documents' = r.documents
        /\ files' = r.files
        /\ call' = Called("delete_document", user_id, <<>>, document_id)
        /\ result' = [ok |-> r.ok, message |-> r.message]
        /\ UNCHANGED <<deployment, clock, users, saveCalls, documents_seq, jobTables,
                       profileTables, goalTables>>

\* SpecCommit: the operations of SpecFiles, and deletes whose commit fails
NextCommit ==
    \/ NextFiles
    \/ \E u \in Users, document_id \in 1..MaxFileDocs :
          DeleteDocumentCommitError(u, document_id)

SpecCommit == Init /\ [][NextCommit]_vars

\* ------------------------------------------------------- login and logout
SessionStep(s, state, op, user_id, ok) ==
    /\ session_state' = [session_state EXCEPT ![s] = state]
    /\ call' = Called(op, user_id, <<>>, s)
    /\ result' = [ok |-> ok, message |-> ""]
    /\ UNCHANGED <<deployment, clock, files, users, saves, db_lock, profile_calls,
                   register_calls, documentTables, jobTables, profileTables, goalTables>>

\* the Login form: verify_user finds the username and the password hash
\* matches, and the three keys are set; any other answer sets nothing
Login(s, user_id, password_matches) ==
    /\ user_id \in user_ids
    /\ IF password_matches
       THEN SessionStep(s, SessionState(TRUE, Username(user_id), user_id),
                        "verify_user", user_id, TRUE)
       ELSE SessionStep(s, session_state[s], "verify_user", NULL, FALSE)

\* the Logout button of the sidebar of app.py, shown to an authenticated
\* session
SidebarLogout(s) ==
    /\ session_state[s].authenticated
    /\ SessionStep(s, SessionState(FALSE, NoUsername, NULL), "logout_btn", NULL, TRUE)

\* show_logout_button and logout() of login.py: authenticated and username
\* are reset, user_id is not written
logout(s) ==
    /\ session_state[s].authenticated
    /\ SessionStep(s, SessionState(FALSE, NoUsername, session_state[s].user_id),
                   "logout", NULL, TRUE)

\* handle_menu_selection: a page is shown to an authenticated session only,
\* and the page calls the data layer with the user_id of the session
PageAddJob(s) ==
    /\ session_state[s].authenticated
    /\ jobs_seq < MaxSessionJobs
    /\ AddJob(session_state[s].user_id, [status |-> "Applied"])

\* SpecSession: the sessions log in, use a page and log out
NextSession ==
    \/ \E s \in Sessions, u \in Users, password_matches \in BOOLEAN :
          Login(s, u, password_matches)
    \/ \E s \in Sessions : SidebarLogout(s)
    \/ \E s \in Sessions : logout(s)
    \/ \E s \in Sessions : PageAddJob(s)

SpecSession == Init /\ [][NextSession]_vars

\* ---------------------------------------------- import of a SQLite export
\* batch_size = 100 in the script; the model keeps the batching and scales
\* the size, so that an export of MaxExportUsers users fills a second batch
batch_size == 2

import_order == <<"users", "jobs", "documents", "user_profile", "career_goals">>

\* the tables of the hosted store, by name, each with its SERIAL sequence
Store ==
    [users |-> [rows |-> users, seq |-> Cardinality(users)],
     jobs |-> [rows |-> jobs, seq |-> jobs_seq],
     documents |-> [rows |-> documents, seq |-> documents_seq],
     user_profile |-> [rows |-> user_profile, seq |-> user_profile_seq],
     career_goals |-> [rows |-> career_goals, seq |-> career_goals_seq]]

\* records[i:i + batch_size], i counted from 0
batch_of(records, i) ==
    SubSeq(records, i + 1,
           IF i + batch_size < Len(records) THEN i + batch_size ELSE Len(records))

\* cleaned_record: every key but id is copied; a user_id outside the users
\* table is replaced through the mapping when the mapping has it, and kept
\* when it has not (the id itself is left for the insert to replace)
cleaned_record(record, table_name, id_mappings) ==
    IF table_name # "users" /\ record.user_id \in DOMAIN id_mappings
    THEN [record EXCEPT !.user_id = id_mappings[record.user_id]]
    ELSE record

\* the constraints of the hosted tables on the rows of one table
hosted_constraints(store, table_name, rows) ==
    /\ table_name = "users" =>
          \A a, b \in rows : a.username = b.username => a.id = b.id
    /\ table_name # "users" =>
          \A r \in rows : r.user_id = NULL \/ \E u \in store.users.rows : u.id = r.user_id
    /\ table_name = "user_profile" =>
          \A a, b \in rows : a.user_id = b.user_id => a.id = b.id

\* supabase.table(table_name).insert(cleaned_batch).execute(): one statement;
\* the rows get the next ids of the sequence in the order of the batch and
\* result.data lists them in that order
insert_batch(store, table_name, cleaned_batch) ==
    LET t == store[table_name]
        inserted_records ==
            [k \in 1..Len(cleaned_batch) |-> [cleaned_batch[k] EXCEPT !.id = t.seq + k]]
        rows == t.rows \cup {inserted_records[k] : k \in 1..Len(cleaned_batch)}
    IN IF hosted_constraints(store, table_name, rows)
       THEN [ok |-> TRUE,
             store |-> [store EXCEPT ![table_name] =
                           [rows |-> rows, seq |-> t.seq + Len(cleaned_batch)]],
             data |-> inserted_records]
       ELSE [ok |-> FALSE, store |-> store, data |-> <<>>]

\* for j, new_record in enumerate(inserted_records): batch[i + j] is read,
\* with i the offset of the batch in records; an index past the end of
\* batch raises and ends the loop
RECURSIVE map_ids(_, _, _, _, _)
map_ids(id_mappings, batch, i, inserted_records, j) ==
    IF j >= Len(inserted_records)
    THEN [raised |-> FALSE, id_mappings |-> id_mappings]
    ELSE IF i + j >= Len(batch)
    THEN [raised |-> TRUE, id_mappings |-> id_mappings]
    ELSE map_ids((batch[i + j + 1].id :> inserted_records[j + 1].id) @@ id_mappings,
                 batch, i, inserted_records, j + 1)

\* for i in range(0, len(records), batch_size)
RECURSIVE import_batches(_, _, _, _)
import_batches(run, table_name, records, i) ==
    IF i >= Len(records) THEN run
    ELSE LET batch == batch_of(records, i)
             cleaned_batch ==
                 [k \in 1..Len(batch) |->
                     cleaned_record(batch[k], table_name, run.id_mappings)]
             insert == insert_batch(run.store, table_name, cleaned_batch)
             mapped == map_ids(run.id_mappings, batch, i, insert.data, 0)
         IN IF ~insert.ok THEN [run EXCEPT !.ok = FALSE]
            ELSE IF table_name # "users"
            THEN import_batches([run EXCEPT !.store = insert.store],
                                table_name, records, i + batch_size)
            ELSE IF mapped.raised
            THEN [ok |-> FALSE, store |-> insert.store, id_mappings |-> mapped.id_mappings]
            ELSE import_batches([ok |-> TRUE, store |-> insert.store,
                                 id_mappings |-> mapped.id_mappings],
                                table_name, records, i + batch_size)

\* for table_name in import_order; an exception returns False at once
RECURSIVE import_tables(_, _, _)
import_tables(run, export_data, t) ==
    IF t > Len(import_order) \/ ~run.ok THEN run
    ELSE import_tables(import_batches(run, import_order[t], export_data[import_order[t]], 0),
                       export_data, t + 1)

import_data_to_supabase(export_data) ==
    import_tables([ok |-> TRUE, store |-> Store, id_mappings |-> <<>>], export_data, 1)

ImportData(export_data) ==
    LET run == import_data_to_supabase(export_data)
    IN /\ call = NoCall
       /\ users' = run.store.users.rows
       /\ jobs' = run.store.jobs.rows
       /\ jobs_seq' = run.store.jobs.seq
       /\ documents' = run.store.documents.rows
       /\ documents_seq' = run.store.documents.seq
       /\ user_profile' = run.store.user_profile.rows
       /\ user_profile_seq' = run.store.user_profile.seq
       /\ career_goals' = run.store.career_goals.rows
       /\ career_goals_seq' = run.store.career_goals.seq
       /\ call' = Called("import_data_to_supabase", NULL, <<export_data>>, NULL)
       /\ result' = [ok |-> run.ok, message |-> "", id_mappings |-> run.id_mappings]
       /\ UNCHANGED <<deployment, clock, files, saveCalls>>

\* the exports: SELECT * FROM each table of the SQLite file, in rowid order
ExportUsername(id) == <<"user1", "user2", "user3", "user4">>[id]

RECURSIVE Ascending(_)
Ascending(ids) ==
    IF ids = {} THEN <<>>
    ELSE LET least == CHOOSE a \in ids : \A b \in ids : a <= b
         IN <<least>> \o Ascending(ids \ {least})

ExportRows(ids, row) ==
    {<<>>} \cup {<<[row EXCEPT !.user_id = u]>> : u \in ids}

Exports ==
    UNION {[users : {[k \in 1..Cardinality(ids) |->
                        [id |-> Ascending(ids)[k],
                         username |-> ExportUsername(Ascending(ids)[k]),
                         email |-> NullEmail]]},
            jobs : ExportRows(ids, [id |-> 1, user_id |-> NULL, status |-> "Applied",
                                    date_added |-> strftime_datetime(0)]),
            documents : ExportRows(ids, [id |-> 1, user_id |-> NULL,
                                         document_name |-> "cv", document_type |-> "Resume",
                                         file_path |-> 1, preferred_resume |-> 0]),
            user_profile : ExportRows(ids, [id |-> 1, user_id |-> NULL,
                                            selected_resume |-> "cv"]),
            career_goals : ExportRows(ids, [id |-> 1, user_id |-> NULL, goals |-> "goal",
                                            submission_date |-> strftime_datetime(0)])]
           : ids \in {x \in SUBSET (1..MaxExportId) : Cardinality(x) <= MaxExportUsers}}

\* SpecImport: the tables of the hosted store are created empty, then the
\* script imports one export
InitImport ==
    /\ deployment = Hosted
    /\ clock = ServerClock
    /\ files = {}
    /\ users = {}
    /\ documents = {}
    /\ documents_seq = 0
    /\ jobs = {}
    /\ jobs_seq = 0
    /\ user_profile = {}
    /\ user_profile_seq = 0
    /\ career_goals = {}
    /\ career_goals_seq = 0
    /\ call = NoCall
    /\ result = [ok |-> TRUE, message |-> ""]
    /\ saves = [s \in Sessions |-> NoSave]
    /\ db_lock = NULL
    /\ profile_calls = [s \in Sessions |-> NoProfileCall]
    /\ register_calls = [s \in Sessions |-> NoRegisterCall]
    /\ session_state = [s \in Sessions |-> LoggedOut]

NextImport == \E export_data \in Exports : ImportData(export_data)

SpecImport == InitImport /\ [][NextImport]_vars

\* ------------------------------------------------------------ timestamps
\* SpecClock: jobs added second after second, some within one second, by
\* callers that put a date_added of their own into job_data
CallerDates == {strftime_datetime(0), strftime_datetime(LastSecond + 1)}

NextClock ==
    \/ \E u \in Users, date_added \in CallerDates :
          /\ jobs_seq < MaxClockJobs
          /\ AddJob(u, [status |-> "Applied", date_added |-> date_added])
    \/ /\ clock.now < days(WindowDays + 1) + MaxTicks
       /\ AdvanceClock(1)

SpecClock == InitStats /\ [][NextClock]_vars

\* ------------------------------------------------------------------ users
\* the users grid saved: login.py writes through get_db_connection(), the
\* SQLite file, so with Supabase active the active store is not written
SaveUsers(users_df) ==
    /\ users' = IF use_supabase THEN users ELSE save_users_to_database(users, users_df)
    /\ call' = Called("save_users_to_database", NULL, users_df, NULL)
    /\ result' = [ok |-> TRUE, message |-> MsgChangesSaved]
    /\ UNCHANGED <<deployment, clock, files, saveCalls, documentTables, jobTables,
                   profileTables, goalTables>>

\* a row of the hosted users table deleted in the store itself
HostedDeleteUser(user_id) ==
    /\ use_supabase
    /\ user_id \in user_ids
    /\ users' = {u \in users : u.id # user_id}
    /\ jobs' = on_delete_cascade(jobs, users')
    /\ documents' = on_delete_cascade(documents, users')
    /\ user_profile' = on_delete_cascade(user_profile, users')
    /\ career_goals' = on_delete_cascade(career_goals, users')
    /\ call' = Called("delete_user", user_id, <<>>, user_id)
    /\ result' = [ok |-> TRUE, message |-> ""]
    /\ UNCHANGED <<deployment, clock, files, saveCalls, documents_seq, jobs_seq,
                   user_profile_seq, career_goals_seq>>

\* the users grid with some of its rows removed, in id order
UserFrames == DataFrames([id : Users])

\* SpecUsers: users with rows of their own in the four tables, and users
\* deleted
NextUsers ==
    \/ \E u \in user_ids, status \in JobStatuses :
          /\ jobs_seq < MaxJobs
          /\ AddJob(u, [status |-> status])
    \/ \E u \in user_ids :
          /\ OwnedRows < MaxOwned
          /\ AddDocument(u, [document_name |-> "Resume_A", document_type |-> "Resume",
                             file_path |-> NULL])
    \/ \E u \in user_ids :
          /\ OwnedRows < MaxOwned
          /\ UpdateUserProfile(u, [selected_resume |-> "Resume_A"])
    \/ \E u \in user_ids :
          /\ OwnedRows < MaxOwned
          /\ AddCareerGoals(u, "goals")
    \/ \E users_df \in UserFrames : SaveUsers(users_df)
    \/ \E u \in Users : HostedDeleteUser(u)

SpecUsers == Init /\ [][NextUsers]_vars

\* ------------------------------------------------------------------ claims
IsSave(c) == c.op = "save_documents_to_database"

Preferred(docs, user_id) == {d \in DocumentsOf(docs, user_id) : d.preferred_resume = 1}

\* the rows of df that name a document of docs owned by user_id
OwnRows(docs, user_id, df) ==
    {i \in DOMAIN df : \E d \in DocumentsOf(docs, user_id) : d.id = df[i].id}

\* df lists every document of user_id, each once, and nothing else
\* C1: a save whose batch marks more than one row preferred returns
\* (False, message) and leaves the documents table as it was.
C1_RejectedBatchWritesNothing ==
    [][(IsSave(call') /\ PreferredCount(call'.batch) > 1)
          => (result'.ok = FALSE /\ result'.message = MsgOnlyOne
              /\ documents' = documents)]_vars

\* a rejected batch has acted: both rows name documents of the caller
C1_Witness ==
    /\ IsSave(call)
    /\ PreferredCount(call.batch) > 1
    /\ result.ok = FALSE
    /\ Cardinality(OwnRows(documents, call.user_id, call.batch)) > 1

\* C2: in every reachable state each user owns at most one document whose
\* preferred_resume flag is set.
C2_AtMostOnePreferred ==
    \A u \in Users : Cardinality(Preferred(documents, u)) <= 1

\* C3: in every reachable state every document whose preferred_resume flag is
\* set has document_type 'Resume'.
C3_PreferredIsResume ==
    \A d \in documents : d.preferred_resume = 1 => d.document_type = "Resume"

\* C5: a save whose batch lists all of the caller's documents with exactly
\* one row preferred returns (True, message); afterwards exactly the document
\* of that row is stored as preferred among the caller's documents and no
\* document of another user has changed.
C5_ValidBatchStored ==
    [][(/\ IsSave(call')
        /\ PreferredCount(call'.batch) = 1
        /\ ListsAllOf(documents, call'.user_id, call'.batch))
          => (/\ result'.ok = TRUE
              /\ \A i \in DOMAIN call'.batch :
                    \E d \in DocumentsOf(documents', call'.user_id) :
                        /\ d.id = call'.batch[i].id
                        /\ d.preferred_resume = 1 <=> call'.batch[i].preferred_resume
              /\ Cardinality(Preferred(documents', call'.user_id)) = 1
              /\ DocumentIds(documents') = DocumentIds(documents)
              /\ \A d \in documents : d.user_id # call'.user_id => d \in documents')]_vars

\* a full batch of two rows has been stored, and the other user has a document
C5_Witness ==
    /\ IsSave(call)
    /\ result.ok = TRUE
    /\ Len(call.batch) > 1
    /\ PreferredCount(call.batch) = 1
    /\ ListsAllOf(documents, call.user_id, call.batch)
    /\ Cardinality(Preferred(documents, call.user_id)) = 1

\* C6: a save or a delete made by one user leaves every document of every
\* other user present with all its fields unchanged.
C6_OtherUsersUntouched ==
    [][(IsSave(call') \/ call'.op = "delete_document")
          => \A d \in documents : d.user_id # call'.user_id => d \in documents']_vars

\* a batch of one user named another user's document and asked for its flag
\* to be set; the flag is still clear
C6_Witness ==
    /\ IsSave(call)
    /\ result.ok = TRUE
    /\ \E i \in DOMAIN call.batch : \E d \in documents :
          /\ d.id = call.batch[i].id
          /\ d.user_id # call.user_id
          /\ call.batch[i].preferred_resume
          /\ d.preferred_resume = 0

\* C10: a save creates and deletes no document and leaves the owner, the name
\* and the type of every document as they were, whatever its rows carry.
C10_OnlyTheFlagChanges ==
    [][IsSave(call')
          => (/\ DocumentIds(documents') = DocumentIds(documents)
              /\ \A d \in documents : \E e \in documents' :
                    /\ e.id = d.id
                    /\ e.user_id = d.user_id
                    /\ e.document_name = d.document_name
                    /\ e.document_type = d.document_type)]_vars

\* a row carrying another name and another type than the stored ones has been
\* applied: the flag is set, the name and the type are the stored ones
C10_Witness ==
    /\ IsSave(call)
    /\ result.ok = TRUE
    /\ \E i \in DOMAIN call.batch : \E d \in DocumentsOf(documents, call.user_id) :
          /\ d.id = call.batch[i].id
          /\ call.batch[i].preferred_resume
          /\ d.preferred_resume = 1
          /\ call.batch[i].document_name # d.document_name
          /\ call.batch[i].document_type # d.document_type

PreferredIds(documents_df) ==
    {documents_df[i].id : i \in {j \in DOMAIN documents_df : documents_df[j].preferred_resume}}

\* both sessions have finished a save for user_id, the two calls met, each
\* batch lists every document of the user and ticks one of them, and the two
\* batches tick different documents
MetSaves(user_id) ==
    /\ \A s \in Sessions :
           /\ saves[s].pc = "done"
           /\ saves[s].overlapped
           /\ saves[s].user_id = user_id
           /\ PreferredCount(saves[s].batch) = 1
           /\ ListsAllOf(documents, user_id, saves[s].batch)
    /\ \A s, o \in Sessions :
           s # o => PreferredIds(saves[s].batch) # PreferredIds(saves[o].batch)

\* C4: after two save_documents_to_database calls for one user that ran at
\* the same time, each marking a different single document preferred, have
\* both completed, the user has at most one preferred document, whatever
\* the interleaving of their SELECTs and UPDATEs.
C4_ConcurrentSavesKeepOnePreferred ==
    \A u \in Users : MetSaves(u) => Cardinality(Preferred(documents, u)) <= 1

IsPortalSave(c) == c.op = "jobs_portal.save_jobs_to_database"

IsAppSave(c) == c.op = "app.save_jobs_to_database"

\* C7: a save of the jobs grid made while user A is logged in deletes and
\* modifies no job row owned by another user.
C7_GridSaveKeepsOthersJobs ==
    [][(IsPortalSave(call') \/ IsAppSave(call'))
          => \A j \in jobs :
                (j.user_id \in Users /\ j.user_id # call'.user_id) => j \in jobs']_vars

\* C8: every read returns only rows owned by the requesting user, the load of
\* the jobs grid included.
C8_ReadsOnlyOwnRows ==
    \A u \in Users :
        /\ \A r \in get_user_jobs(jobs, u) : r.user_id = u
        /\ \A r \in get_user_documents(documents, u) : r.user_id = u
        /\ \A r \in get_user_profile(user_profile, u) : r.user_id = u
        /\ \A r \in get_user_career_goals(career_goals, u) : r.user_id = u
        /\ \A r \in get_preferred_resume(documents, u) : r.user_id = u
        /\ \A r \in load_jobs_grid(jobs) : r.user_id = u

\* C9: every row of jobs, documents, user_profile and career_goals carries an
\* owning user.
C9_EveryRowHasOwner ==
    /\ \A r \in jobs : r.user_id \in Users
    /\ \A r \in documents : r.user_id \in Users
    /\ \A r \in user_profile : r.user_id \in Users
    /\ \A r \in career_goals : r.user_id \in Users

\* C11: a save that meets a store error at row i of a valid batch returns
\* (False, message) and leaves the stored preferred flags as they were before
\* the call, on either backend.
C11_FailedSaveAppliesNothing ==
    [][(IsSave(call') /\ result'.message = MsgStoreError)
          => (result'.ok = FALSE /\ documents' = documents)]_vars

\* C12: use_supabase() selects the hosted backend exactly when supabase_utils
\* was imported, SUPABASE_URL is configured and data/jobs.db is absent.
C12_HostedIffConfiguredAndNoLocalFile ==
    use_supabase <=> (/\ deployment.SUPABASE_AVAILABLE
                      /\ deployment.SUPABASE_URL
                      /\ ~deployment.jobs_db)

\* C13: on the same job rows and at the same time the SQLite statistics and
\* the Supabase statistics of a user are equal: total_applications,
\* status_counts and recent_applications.
C13_StatsAgreeAcrossBackends ==
    \A u \in Users : sqlite_get_user_stats(jobs, u) = supabase_get_user_stats(jobs, u)

RowsOf(user_id, js, docs, profiles, goals_table) ==
    <<{r \in js : r.user_id = user_id}, {r \in docs : r.user_id = user_id},
      {r \in profiles : r.user_id = user_id}, {r \in goals_table : r.user_id = user_id}>>

\* C14: when a user is deleted every job, document, user_profile and
\* career_goals row of that user is removed with it, and every row of every
\* other user stays.
C14_DeleteUserCascades ==
    [][\A u \in Users :
          /\ (u \in user_ids /\ u \notin user_ids')
                => RowsOf(u, jobs', documents', user_profile', career_goals')
                      = <<{}, {}, {}, {}>>
          /\ (u \in user_ids /\ u \in user_ids' /\ users' # users)
                => RowsOf(u, jobs', documents', user_profile', career_goals')
                      = RowsOf(u, jobs, documents, user_profile, career_goals)]_vars

C16_CreatedNotPreferred ==
    [][/\ (/\ call'.op \in {"add_document", "upload_document_with_content"}
           /\ documents_seq' = documents_seq + 1)
          => \E new \in documents' :
                /\ new.id = documents_seq'
                /\ new.preferred_resume = 0
                /\ documents' = documents \cup {new}
       /\ \A new \in documents' :
             (/\ new.preferred_resume = 1
              /\ ~ \E d \in documents : d.id = new.id /\ d.preferred_resume = 1)
                => IsSave(call')]_vars

\* add_document called with preferred_resume true in document_data
C16_Witness ==
    /\ call.op = "add_document"
    /\ Len(call.batch) = 1
    /\ call.batch[1].preferred_resume = TRUE
    /\ \E d \in documents : d.id = call.id /\ d.preferred_resume = 0
    /\ \E d \in documents : d.id # call.id /\ d.preferred_resume = 1

\* C20: a delete_document of the owner that succeeds removes the row and,
\* when the row's file_path names a file that exists, the file.
C20_DeleteRemovesRowAndFile ==
    [][(call'.op = "delete_document" /\ result'.ok)
          => \A d \in documents :
                (d.id = call'.id /\ d.user_id = call'.user_id)
                   => /\ d \notin documents'
                      /\ d.file_path # NULL => d.file_path \notin files']_vars

\* C17: whatever update_user_profile calls were made, one after another or
\* one inside another, no user has more than one user_profile row.
C17_OneProfilePerUser ==
    \A u \in Users : Cardinality({p \in user_profile : p.user_id = u}) <= 1

\* C18: a call that submits career goals adds exactly one row, owned by the
\* acting user, and leaves every existing career_goals row as it was; every
\* other call of the data layer leaves the table as it was.
C18_GoalsAppendOnly ==
    [][IF career_goals_seq' # career_goals_seq
       THEN /\ call'.op \in {"add_career_goals", "save_career_goals"}
            /\ \E new \in career_goals' :
                  /\ new \notin career_goals
                  /\ new.user_id = call'.user_id
                  /\ career_goals' = career_goals \cup {new}
                  /\ Cardinality(career_goals') = Cardinality(career_goals) + 1
       ELSE career_goals' = career_goals]_vars

\* a second submission of a user, added beside the first
C18_Witness ==
    /\ call.op = "add_career_goals"
    /\ \E old, new \in career_goals :
          /\ new.id = call.id
          /\ old.id < new.id
          /\ old.user_id = call.user_id
          /\ new.user_id = call.user_id

\* C19: a read of a user's career goals that follows an add_career_goals of
\* that user returns the row just added first, whatever was submitted before.
C19_LatestGoalsFirst ==
    [][(/\ call.op = "add_career_goals"
        /\ call'.op = "get_user_career_goals"
        /\ call'.user_id = call.user_id)
          => result'.rows[1].id = call.id]_vars

\* C21: delete_document called for a document of another user returns what
\* it returns for an id no document has, (False, 'Document not found or
\* access denied'), and changes no row and no file.
C21_DeleteDoesNotLeakExistence ==
    [][(/\ call'.op = "delete_document"
        /\ ~ \E d \in documents : d.id = call'.id /\ d.user_id = call'.user_id)
          => /\ result' = [ok |-> FALSE, message |-> MsgDenied]
             /\ documents' = documents
             /\ files' = files]_vars

\* a delete turned away from another user's document, whose file exists
C21_Witness ==
    /\ call.op = "delete_document"
    /\ result = [ok |-> FALSE, message |-> MsgDenied]
    /\ \E d \in documents :
          /\ d.id = call.id
          /\ d.user_id # call.user_id
          /\ d.file_path \in files

\* C22: when a data operation has returned, no SQLite connection it opened
\* is still open, whether it succeeded, turned its input away or caught an
\* exception of the store.
C22_ConnectionsClosed == call.unclosed = 0

\* C23: a write operation of the data layer never raises to its caller: a
\* failure of the backend, a hosted store without credentials included, comes
\* back as (False, message).
C23_WritesNeverRaise == "raised" \notin DOMAIN result

\* a register_user call returns in this step
RegisterReturned ==
    \E s \in Sessions : register_calls[s].pc # "idle" /\ register_calls'[s].pc = "idle"

\* C24: a register_user call whose username a users row already has returns
\* (False, message) and adds no row, and however the calls are interleaved
\* no two users rows share a username.
C24_UsernamesUnique ==
    [][/\ (/\ RegisterReturned
           /\ call'.op = "register_user"
           /\ \E u \in users : u.username = call'.batch[1].username)
          => (result'.ok = FALSE /\ users' = users)
       /\ \A u1, u2 \in users' : u1.username = u2.username => u1 = u2]_vars

\* a registration that found the username free and whose INSERT was turned
\* away, the username having been taken in between
C24_Witness ==
    /\ call.op = "register_user"
    /\ result.ok = FALSE
    /\ result.message \in {MsgIntegrityError, MsgRegistrationError}
    /\ \E u \in users : u.username = call.batch[1].username /\ u.id > Cardinality(Users)

\* C25: a registration with a username no user has, a password and the email
\* left blank succeeds, whatever users there are.
C25_BlankEmailRegisters ==
    [][(/\ RegisterReturned
        /\ call'.op = "register_user"
        /\ call'.batch[1].email = ""
        /\ call'.batch[1].username # ""
        /\ result'.message # MsgRequired
        /\ ~ \E u \in users : u.username = call'.batch[1].username)
          => result'.ok = TRUE]_vars

\* a get_user_stats call is made in this step
StatsRead == call'.op = "get_user_stats" /\ jobs' = jobs /\ clock' = clock

\* C26: get_user_stats(user) returns the number of the user's jobs, for each
\* status the number of the user's jobs that have it, and the number of the
\* user's jobs added on or after the day seven days before the day of the
\* call, by the clock that stamps date_added.
C26_StatsCountOwnJobs ==
    [][StatsRead =>
          LET rows == {j \in jobs : j.user_id = call'.user_id}
              stats == result'.stats
              since == strftime_date(datetime_now - days(WindowDays))
          IN  /\ stats.total_applications = Cardinality(rows)
              /\ \A st \in {j.status : j \in rows} \ {NullStatus} :
                    /\ st \in DOMAIN stats.status_counts
                    /\ stats.status_counts[st] = Cardinality({j \in rows : j.status = st})
              /\ stats.recent_applications =
                    Cardinality({j \in rows : TextLessEq(since, j.date_added)})]_vars

\* C27: when delete_document returns (False, message) on SQLite, the
\* documents table and the files are what they were before the call.
C27_FailedDeleteKeepsFile ==
    [][(call'.op = "delete_document" /\ ~use_supabase /\ result'.ok = FALSE)
          => (documents' = documents /\ files' = files)]_vars

\* the sum of the values of a dict
RECURSIVE SumOver(_, _)
SumOver(f, keys) ==
    IF keys = {} THEN 0
    ELSE LET k == CHOOSE x \in keys : TRUE
         IN  f[k] + SumOver(f, keys \ {k})

\* C28: in the result of get_user_stats total_applications is the sum of the
\* values of status_counts, and recent_applications is at most
\* total_applications.
C28_StatsAddUp ==
    [][StatsRead =>
          LET stats == result'.stats
          IN  /\ stats.total_applications
                    = SumOver(stats.status_counts, DOMAIN stats.status_counts)
              /\ stats.recent_applications <= stats.total_applications]_vars

\* C29: after any logins and logouts a session that is not authenticated has
\* no user_id.
C29_LoggedOutHasNoUserId ==
    \A s \in Sessions :
        ~session_state[s].authenticated => session_state[s].user_id = NULL

\* the username of the user a row of the hosted store references
OwnerIn(us, user_id) == {u.username : u \in {x \in us : x.id = user_id}}

\* the rows of one imported table reference the users that owned them in
\* the export
KeepsOwners(export_data, table_name, rows) ==
    \A row \in rows :
        \E k \in 1..Len(export_data[table_name]) :
            OwnerIn(users, row.user_id)
                = {ExportUsername(export_data[table_name][k].user_id)}

\* C30: after an import every exported user has an entry old id -> new id
\* that names the row inserted for that user, and every imported job,
\* document, user_profile and career_goals row references the user that
\* owned it in the export.
C30_ImportMapsEveryUser ==
    call.op = "import_data_to_supabase" =>
        LET export_data == call.batch[1]
        IN /\ \A k \in 1..Len(export_data.users) :
                 /\ export_data.users[k].id \in DOMAIN result.id_mappings
                 /\ OwnerIn(users, result.id_mappings[export_data.users[k].id])
                        = {export_data.users[k].username}
           /\ KeepsOwners(export_data, "jobs", jobs)
           /\ KeepsOwners(export_data, "documents", documents)
           /\ KeepsOwners(export_data, "user_profile", user_profile)
           /\ KeepsOwners(export_data, "career_goals", career_goals)

====
